---- MODULE Spec2Model ----
(***************************************************************************)
(* A model of src/main.rs: the physics worker thread (physics) and the     *)
(* consumer loop of main, joined by two std::sync::mpsc channels.          *)
(*                                                                         *)
(* The nphysics engine is an external library.  Of the engine, the model   *)
(* keeps what the program reads and writes: the collider table (uid ->     *)
(* body handle), the rigid bodies' position and velocity, and the order in *)
(* which the engine hands out collider uids.  Lengths are in 1/60 of a     *)
(* unit and velocities in units per second, so that one step of 1/60 s     *)
(* adds the velocity to the position; contacts are left out.               *)
(***************************************************************************)
EXTENDS Integers, Sequences, FiniteSets, TLC

(* Program constants. *)
NumGround == 4
NumBalls == 2
TickBudget == 300
TicksPerSecond == 60
BallSpacing == 4
BallHeight == 3
InitialVelocity == 30

(* Bounds of the model. *)
MaxUid == 6         \* the engine hands out collider uids in 0..MaxUid-1
MaxHandlers == 3    \* longest handle list given to the insert loop alone

VARIABLES
    uids,           \* engine: the collider uids it will hand out, in order
    world,          \* World<f32>: [colliders, bodies]
    balls_handler,  \* physics: Vec<ColliderHandle> returned by create_balls
    balls,          \* physics: HashSet of the balls' uids
    cursor,         \* physics: position of the insert loop in balls_handler
    wpc,            \* physics: program counter of the worker thread
    tick,           \* physics: iterations of the stepping loop completed
    steps,          \* history: number of world.step() calls made
    chBalls,        \* channel (txBalls, rxBalls): queued Vec<Ball> values
    chMessages,     \* channel (txMessages, rxMessages): queued strings
    rxAlive,        \* whether the two receivers still exist
    mpc,            \* main: program counter of the consumer
    message,        \* main: the last message received
    sync_balls,     \* main: the last snapshot taken from rxBalls
    taken,          \* history: number of snapshots main has taken
    event,          \* the last contact event classified
    cancel          \* whether a request to stop has been raised from outside

vars == <<uids, world, balls_handler, balls, cursor, wpc, tick, steps,
          chBalls, chMessages, rxAlive, mpc, message, sync_balls, taken, event,
          cancel>>

sceneVars == <<uids, balls_handler, balls, cursor>>
workerVars == <<uids, world, balls_handler, balls, cursor, wpc, tick, steps>>
chanVars == <<chBalls, chMessages, rxAlive>>
mainVars == <<mpc, message, sync_balls, taken>>

Uid == 0..(MaxUid - 1)
NumColliders == NumGround + NumBalls

\* Option::None of a handle lookup; BodyHandle::ground().
None == -1
Ground == 0

(***************************************************************************)
(* The engine.                                                             *)
(***************************************************************************)
EmptyWorld == [colliders |-> <<>>, bodies |-> <<>>]

\* world.add_collider(.., body, ..): the collider gets the uid the engine
\* hands out and is attached to body.
AddCollider(w, uid, body) ==
    [w EXCEPT !.colliders = [u \in DOMAIN w.colliders \cup {uid} |->
                                IF u = uid THEN body ELSE w.colliders[u]]]

\* world.add_rigid_body(pos, ..): a new body at rest; its handle is its index.
AddRigidBody(w, pos) ==
    [w EXCEPT !.bodies = Append(w.bodies, [position |-> pos, velocity |-> <<0, 0>>])]

\* world.collider_body_handle(handle): Some(body) or None.
ColliderBodyHandle(w, uid) ==
    IF uid \in DOMAIN w.colliders THEN w.colliders[uid] ELSE None

\* world.rigid_body_mut(body) is Some(rigid body): the ground is no rigid body.
IsRigidBody(w, body) == body \in DOMAIN w.bodies

\* world.rigid_body_mut(body).unwrap()
RigidBodyMut(w, body) == w.bodies[body]

\* world.step(): one fixed step of 1/60 s.
StepWorld(w) ==
    [w EXCEPT !.bodies = [b \in DOMAIN w.bodies |->
        [w.bodies[b] EXCEPT !.position =
            <<w.bodies[b].position[1] + w.bodies[b].velocity[1],
              w.bodies[b].position[2] + w.bodies[b].velocity[2]>>]]]

(***************************************************************************)
(* Scene construction.                                                     *)
(***************************************************************************)
RECURSIVE GroundColliders(_, _, _)
\* create_ground: one collider per position, all attached to the ground.
GroundColliders(w, ids, n) ==
    IF n = 0 THEN w
    ELSE GroundColliders(AddCollider(w, Head(ids), Ground), Tail(ids), n - 1)

\* The initial position of ball i (0-based).
BallPosition(i) == <<(i - 1) * BallSpacing * TicksPerSecond, BallHeight * TicksPerSecond>>

RECURSIVE BallBodies(_, _, _, _)
\* create_balls: for i in 0..num, a rigid body and its collider.
BallBodies(w, ids, i, num) ==
    IF i = num THEN w
    ELSE LET wb == AddRigidBody(w, BallPosition(i))
         IN BallBodies(AddCollider(wb, Head(ids), Len(wb.bodies)), Tail(ids), i + 1, num)

\* Ball::new(id, position, velocity)
Ball(id, position, velocity) == [id |-> id, position |-> position, velocity |-> velocity]

\* A tracked handle whose collider or body the engine cannot resolve: unwrap panics.
Resolvable(w, handler) ==
    /\ ColliderBodyHandle(w, handler) # None
    /\ IsRigidBody(w, ColliderBodyHandle(w, handler))

\* A snapshot of the bodies as they were before the step.
SnapshotBeforeStep(handlers, w) ==
    [j \in 1..Len(handlers) |->
        LET rigid_body == RigidBodyMut(w, ColliderBodyHandle(w, handlers[j]))
        IN Ball(handlers[j],
                <<rigid_body.position[1] - rigid_body.velocity[1],
                  rigid_body.position[2] - rigid_body.velocity[2]>>,
                rigid_body.velocity)]

\* A snapshot that walks the handles from the last to the first.
SnapshotReversed(handlers, w) ==
    [j \in 1..Len(handlers) |->
        LET h == handlers[Len(handlers) + 1 - j]
            rigid_body == RigidBodyMut(w, ColliderBodyHandle(w, h))
        IN Ball(h, rigid_body.position, rigid_body.velocity)]

\* balls_handler.iter().map(..).collect(): one Ball per handle, in the Vec's order.
Snapshot(handlers, w) ==
    [j \in 1..Len(handlers) |->
        LET rigid_body == RigidBodyMut(w, ColliderBodyHandle(w, handlers[j]))
        IN Ball(handlers[j], rigid_body.position, rigid_body.velocity)]

\* An insert that takes out a value it finds in the set.
InsertToggle(set, uid) == IF uid \in set THEN set \ {uid} ELSE set \cup {uid}

\* HashSet::insert: the set with the value in it; an equal value is not added twice.
Insert(set, uid) == set \cup {uid}

(***************************************************************************)
(* Channels.                                                               *)
(***************************************************************************)
\* A send of a buffer the worker goes on writing to: every value queued
\* shows what was written last.
SendShared(queue, alive, value) ==
    IF alive THEN [j \in 1..(Len(queue) + 1) |-> value] ELSE queue

\* Sender::send: queues the value, or returns Err when the receiver is gone.
Send(queue, alive, value) == IF alive THEN Append(queue, value) ELSE queue

\* A channel made by mpsc::sync_channel(1): a send waits while a value is queued.
CanSendBounded(queue) == Len(queue) < 1

\* Whether a send can go ahead: the channels are made by mpsc::channel(),
\* which queues without bound, so a send never waits for the receiver.
CanSend(queue) == TRUE

\* A worker that unwraps the Result of send.
SendFatalUnwrap(alive) == ~alive

\* Whether a send that returned Err stops the worker: physics drops the
\* Result of every send, so it never does.
SendFatal(alive) == FALSE

\* A receive that returns the newest value queued.
FrontNewest(queue) == queue[Len(queue)]

\* The value a receive returns: the oldest one queued.
Front(queue) == Head(queue)

\* A worker that misspells the tag of its notification.
NotificationMisspelt == "ball"

\* A worker that tags every message "end".
NotificationEnd == "end"

\* The message sent after each snapshot.
Notification == "balls"

\* A loop with one iteration too many: 0..=300.
LoopHeadInclusive(n) == IF n <= TickBudget THEN "step" ELSE "end"

\* for _ in 0..300: the loop goes on while iterations remain.
LoopHead(n) == IF n < TickBudget THEN "step" ELSE "end"

\* A loop body that sends the notification before the snapshot.
NextStatementNotifyFirst(pc) ==
    CASE pc = "step" -> "send_message"
      [] pc = "send_message" -> "send_balls"
      [] pc = "send_balls" -> "loop"

\* The statements of the loop body, in order; "loop" is the loop's head.
NextStatement(pc) ==
    CASE pc = "step" -> "send_balls"
      [] pc = "send_balls" -> "send_message"
      [] pc = "send_message" -> "loop"

\* A worker that looks at the request to stop at the head of its loop.
StopRequestedObserved(signal) == signal

\* Whether the loop ends early on a request to stop: physics holds nothing
\* that such a request could reach, and the loop's head tests its count only.
StopRequested(signal) == FALSE

\* The worker has returned or unwound: both senders are dropped.
SendersDropped == wpc \in {"done", "panicked", "stopped"}

\* A panic of the main thread ends the process, the worker with it.
ProcessAlive == mpc # "panicked"

(***************************************************************************)
(* The worker thread: physics.                                             *)
(***************************************************************************)
\* The program before physics has made its world; the engine hands out the
\* uids in the order of uids.
Start ==
    /\ world = EmptyWorld
    /\ balls_handler = <<>>
    /\ balls = {}
    /\ cursor = 0
    /\ wpc = "create_ground"
    /\ tick = 0
    /\ steps = 0
    /\ chBalls = <<>>
    /\ chMessages = <<>>
    /\ rxAlive = TRUE
    /\ mpc = "recv"
    /\ message = ""
    /\ sync_balls = <<>>
    /\ taken = 0
    /\ event = <<>>
    /\ cancel = FALSE

\* The engine hands out its collider uids in ascending order.
Init ==
    /\ uids = [n \in 1..NumColliders |-> n - 1]
    /\ Start

CreateGround ==
    /\ wpc = "create_ground"
    /\ ProcessAlive
    /\ world' = GroundColliders(world, uids, NumGround)
    /\ uids' = SubSeq(uids, NumGround + 1, Len(uids))
    /\ wpc' = "create_balls"
    /\ UNCHANGED <<balls_handler, balls, cursor, tick, steps, event, cancel>>
    /\ UNCHANGED <<chanVars, mainVars>>

CreateBalls ==
    /\ wpc = "create_balls"
    /\ ProcessAlive
    /\ world' = BallBodies(world, uids, 0, NumBalls)
    /\ balls_handler' = SubSeq(uids, 1, NumBalls)
    /\ uids' = SubSeq(uids, NumBalls + 1, Len(uids))
    /\ balls' = {}
    /\ cursor' = 1
    /\ wpc' = "insert"
    /\ UNCHANGED <<tick, steps, event, cancel>>
    /\ UNCHANGED <<chanVars, mainVars>>

\* for handler in balls_handler.clone() { balls.insert(handler.uid()); }
InsertBall ==
    /\ wpc = "insert"
    /\ ProcessAlive
    /\ IF cursor <= Len(balls_handler)
       THEN /\ balls' = Insert(balls, balls_handler[cursor])
            /\ cursor' = cursor + 1
            /\ wpc' = "insert"
       ELSE /\ wpc' = "set_velocity"
            /\ UNCHANGED <<balls, cursor>>
    /\ UNCHANGED <<uids, world, balls_handler, tick, steps, event, cancel>>
    /\ UNCHANGED <<chanVars, mainVars>>

\* The last ball gets the linear velocity (30, 30); a handle that does not
\* resolve makes an unwrap panic.
SetVelocity ==
    /\ wpc = "set_velocity"
    /\ ProcessAlive
    /\ IF balls_handler # <<>> /\ Resolvable(world, balls_handler[Len(balls_handler)])
       THEN /\ world' = [world EXCEPT
                   !.bodies[ColliderBodyHandle(world, balls_handler[Len(balls_handler)])].velocity =
                       <<InitialVelocity, InitialVelocity>>]
            /\ wpc' = LoopHead(0)
       ELSE /\ wpc' = "panicked"
            /\ UNCHANGED world
    /\ UNCHANGED <<sceneVars, tick, steps, event, cancel>>
    /\ UNCHANGED <<chanVars, mainVars>>

\* The worker goes from the statement at pc to the next one; passing the loop's
\* head completes an iteration.
Advance(pc) ==
    /\ wpc' = IF NextStatement(pc) # "loop" THEN NextStatement(pc)
              ELSE IF StopRequested(cancel) THEN "stopped"
              ELSE LoopHead(tick + 1)
    /\ tick' = IF NextStatement(pc) = "loop" THEN tick + 1 ELSE tick

\* thread::sleep(..); world.step();
Step ==
    /\ wpc = "step"
    /\ ProcessAlive
    /\ world' = StepWorld(world)
    /\ steps' = steps + 1
    /\ Advance("step")
    /\ UNCHANGED <<sceneVars, event, cancel>>
    /\ UNCHANGED <<chanVars, mainVars>>

\* txBalls.send(sync_balls.collect()); the lazy map runs here, and an unwrap
\* of a handle that does not resolve panics.
SendBalls ==
    /\ wpc = "send_balls"
    /\ ProcessAlive
    /\ CanSend(chBalls)
    /\ IF \A j \in 1..Len(balls_handler) : Resolvable(world, balls_handler[j])
       THEN /\ chBalls' = Send(chBalls, rxAlive, Snapshot(balls_handler, world))
            /\ IF SendFatal(rxAlive)
               THEN wpc' = "panicked" /\ UNCHANGED tick
               ELSE Advance("send_balls")
       ELSE /\ wpc' = "panicked"
            /\ UNCHANGED <<chBalls, tick>>
    /\ UNCHANGED <<sceneVars, world, steps, event, cancel>>
    /\ UNCHANGED <<chMessages, rxAlive, mainVars>>

\* txMessages.send(String::from("balls"));
SendMessage ==
    /\ wpc = "send_message"
    /\ ProcessAlive
    /\ CanSend(chMessages)
    /\ chMessages' = Send(chMessages, rxAlive, Notification)
    /\ IF SendFatal(rxAlive)
       THEN wpc' = "panicked" /\ UNCHANGED tick
       ELSE Advance("send_message")
    /\ UNCHANGED <<sceneVars, world, steps, event, cancel>>
    /\ UNCHANGED <<chBalls, rxAlive, mainVars>>

\* txMessages.send(String::from("end")); physics returns.
SendEnd ==
    /\ wpc = "end"
    /\ ProcessAlive
    /\ CanSend(chMessages)
    /\ chMessages' = Send(chMessages, rxAlive, "end")
    /\ wpc' = IF SendFatal(rxAlive) THEN "panicked" ELSE "done"
    /\ UNCHANGED <<sceneVars, world, tick, steps, event, cancel>>
    /\ UNCHANGED <<chBalls, rxAlive, mainVars>>

(***************************************************************************)
(* The consumer: the loop of main.                                         *)
(***************************************************************************)
\* if let Ok(message) = rxMessages.recv() { match message.as_str() { .. } }
Recv ==
    /\ mpc = "recv"
    /\ chMessages # <<>>
    /\ message' = Front(chMessages)
    /\ chMessages' = Tail(chMessages)
    /\ mpc' = CASE Front(chMessages) = "balls" -> "try_recv"
                [] Front(chMessages) = "end" -> "join"
                [] OTHER -> "panicked"
    /\ UNCHANGED <<sync_balls, taken, chBalls, rxAlive, event, cancel>>
    /\ UNCHANGED workerVars

\* let sync_balls = rxBalls.try_recv().unwrap(); println!(..);
TryRecv ==
    /\ mpc = "try_recv"
    /\ IF chBalls # <<>>
       THEN /\ sync_balls' = Front(chBalls)
            /\ chBalls' = Tail(chBalls)
            /\ taken' = taken + 1
            /\ mpc' = "recv"
       ELSE /\ mpc' = "panicked"
            /\ UNCHANGED <<sync_balls, chBalls, taken>>
    /\ UNCHANGED <<message, chMessages, rxAlive, event, cancel>>
    /\ UNCHANGED workerVars

\* handle.join(); main returns and the receivers are dropped.
Join ==
    /\ mpc = "join"
    /\ SendersDropped
    /\ mpc' = "exit"
    /\ rxAlive' = FALSE
    /\ chBalls' = <<>>
    /\ chMessages' = <<>>
    /\ UNCHANGED <<message, sync_balls, taken, event, cancel>>
    /\ UNCHANGED workerVars

Worker ==
    \/ CreateGround
    \/ CreateBalls
    \/ InsertBall
    \/ SetVelocity
    \/ Step
    \/ SendBalls
    \/ SendMessage
    \/ SendEnd

Main ==
    \/ Recv
    \/ TryRecv
    \/ Join

Next == Worker \/ Main

Spec == Init /\ [][Next]_vars

\* The worker thread runs whenever it can.
FairSpec == Spec /\ WF_vars(Worker)

(***************************************************************************)
(* The same program with the engine handing out its uids in any order.     *)
(* The worker is followed alone: what it publishes does not depend on when *)
(* the consumer reads.                                                     *)
(***************************************************************************)
UidOrders ==
    {s \in [1..NumColliders -> Uid] : \A m, n \in 1..NumColliders : m # n => s[m] # s[n]}

InitScene ==
    /\ uids \in UidOrders
    /\ Start

SpecScene == InitScene /\ [][Worker]_vars

(***************************************************************************)
(* The insert loop of physics on any list of handles, equal ones included. *)
(***************************************************************************)
HandleLists == UNION {[1..n -> Uid] : n \in 1..MaxHandlers}

InitRegistry ==
    /\ uids = <<>>
    /\ world = EmptyWorld
    /\ balls_handler \in HandleLists
    /\ balls = {}
    /\ cursor = 1
    /\ wpc = "insert"
    /\ tick = 0
    /\ steps = 0
    /\ chBalls = <<>>
    /\ chMessages = <<>>
    /\ rxAlive = TRUE
    /\ mpc = "recv"
    /\ message = ""
    /\ sync_balls = <<>>
    /\ taken = 0
    /\ event = <<>>
    /\ cancel = FALSE

SpecRegistry == InitRegistry /\ [][InsertBall]_vars

(***************************************************************************)
(* A fault in the worker: world.step() or an unwrap of the snapshot        *)
(* panics, the thread unwinds and its senders are dropped.                 *)
(***************************************************************************)
WorkerPanic ==
    /\ wpc \in {"step", "send_balls"}
    /\ ProcessAlive
    /\ wpc' = "panicked"
    /\ UNCHANGED <<sceneVars, world, tick, steps, event, cancel>>
    /\ UNCHANGED <<chanVars, mainVars>>

\* A loop that ends when recv returns Err.
RecvErrBreaks ==
    /\ mpc = "recv"
    /\ chMessages = <<>>
    /\ SendersDropped
    /\ mpc' = "join"
    /\ UNCHANGED <<message, sync_balls, taken, event, cancel>>
    /\ UNCHANGED <<workerVars, chanVars>>

\* rxMessages.recv() returns Err: the queue is empty and the sender is gone.
\* `if let Ok(..)` does not match and the loop goes round again.
RecvErr ==
    /\ mpc = "recv"
    /\ chMessages = <<>>
    /\ SendersDropped
    /\ UNCHANGED vars

NextFault == Next \/ WorkerPanic \/ RecvErr

SpecFault == Init /\ [][NextFault]_vars

FairSpecFault == SpecFault /\ WF_vars(Worker) /\ WF_vars(Main \/ RecvErr)

(***************************************************************************)
(* A consumer that goes away: both receivers are dropped while the worker  *)
(* runs, and what was queued is dropped with them.                         *)
(***************************************************************************)
DropReceivers ==
    /\ mpc \in {"recv", "try_recv"}
    /\ rxAlive
    /\ mpc' = "dropped"
    /\ rxAlive' = FALSE
    /\ chBalls' = <<>>
    /\ chMessages' = <<>>
    /\ message' = ""
    /\ sync_balls' = <<>>
    /\ taken' = 0
    /\ UNCHANGED <<event, cancel>>
    /\ UNCHANGED workerVars

NextDrop == Next \/ DropReceivers

SpecDrop == Init /\ [][NextDrop]_vars

FairSpecDrop == SpecDrop /\ WF_vars(Worker)

(***************************************************************************)
(* The classification of contact events.  physics() does not classify: the *)
(* callback that did is commented out at the end of main and tests only    *)
(* "both are balls".  The roles and the three categories are the design's. *)
(***************************************************************************)
\* role_of(id): Ball for a uid in balls, Ground for a collider of the ground,
\* no role for an id never registered.
RoleOf(id) ==
    IF id \in balls THEN "Ball"
    ELSE IF ColliderBodyHandle(world, id) = Ground THEN "Ground"
    ELSE "Unknown"

\* A classifier that knows balls only: a ball against the ground is Other.
CategoryBallsOnly(role_a, role_b) ==
    IF role_a = "Ball" /\ role_b = "Ball" THEN "BallVsBall" ELSE "Other"

\* The category of a pair of roles.
Category(role_a, role_b) ==
    IF role_a = "Ball" /\ role_b = "Ball" THEN "BallVsBall"
    ELSE IF \/ role_a = "Ground" /\ role_b = "Ball"
            \/ role_a = "Ball" /\ role_b = "Ground" THEN "BallVsGround"
    ELSE "Other"

\* One raw contact event, classified; its kind and its ids are kept.
Classify(kind, a, b) ==
    [kind |-> kind, a |-> a, b |-> b, category |-> Category(RoleOf(a), RoleOf(b))]

\* The ids a raw contact may name: every uid, and one the engine never made.
ContactIds == Uid \cup {MaxUid}

\* The engine reports a contact between any two ids once the scene is built
\* and the balls are registered.
ClassifyContact ==
    /\ wpc = "set_velocity"
    /\ \E kind \in {"Started", "Stopped"}, a \in ContactIds, b \in ContactIds :
          event' = Classify(kind, a, b)
    /\ UNCHANGED cancel
    /\ UNCHANGED <<workerVars, chanVars, mainVars>>

NextClassify == CreateGround \/ CreateBalls \/ InsertBall \/ ClassifyContact

SpecClassify == InitScene /\ [][NextClassify]_vars

(***************************************************************************)
(* A consumer that never receives: the worker is followed alone.           *)
(***************************************************************************)
SpecNoReceive == Init /\ [][Worker]_vars

FairSpecNoReceive == SpecNoReceive /\ WF_vars(Worker)

(***************************************************************************)
(* A request to stop raised from outside at any time of the run.  Nothing  *)
(* in physics reads it; the worker is followed alone.                      *)
(***************************************************************************)
RaiseCancel ==
    /\ ~cancel
    /\ cancel' = TRUE
    /\ UNCHANGED <<workerVars, chanVars, mainVars, event>>

NextCancel == Worker \/ RaiseCancel

SpecCancel == Init /\ [][NextCancel]_vars

FairSpecCancel == SpecCancel /\ WF_vars(Worker)

(***************************************************************************)
(* What the claims are stated with.                                        *)
(***************************************************************************)
\* The velocity of the j-th ball created: the last one is set moving.
VelocityOf(j) ==
    IF j = Len(balls_handler) THEN <<InitialVelocity, InitialVelocity>> ELSE <<0, 0>>

\* The frame of tick k: every ball created, in creation order, where k steps
\* from its initial position have taken it.
FrameOfTick(k) ==
    [j \in 1..Len(balls_handler) |->
        [id |-> balls_handler[j],
         position |-> <<BallPosition(j - 1)[1] + k * VelocityOf(j)[1],
                        BallPosition(j - 1)[2] + k * VelocityOf(j)[2]>>,
         velocity |-> VelocityOf(j)]]

\* Frames the worker has sent, while the receivers exist.
FramesSent == taken + Len(chBalls)

(* C1: the k-th frame the consumer takes is the frame of tick k: the frames
   are received in tick order, none missing, none twice, none out of order. *)
C1_FramesInTickOrder ==
    /\ taken <= tick + 1
    /\ taken > 0 => sync_balls = FrameOfTick(taken)

\* The consumer has taken the third frame while later ones wait behind it.
C1_Witness == taken = 3 /\ Len(chBalls) >= 2 /\ sync_balls = FrameOfTick(3)

\* How many of the queued messages are m.
Queued(m) == Cardinality({j \in DOMAIN chMessages : chMessages[j] = m})

\* "end" messages the worker has sent: those queued and the one main holds.
EndsSent == Queued("end") + IF message = "end" THEN 1 ELSE 0

(* C2: "end" is sent exactly once, when the worker is done and the frame of
   the last tick has been sent; it is the last message of its channel, no
   frame is sent after it, and main takes no frame after receiving it. *)
C2_EndOnceAfterLastFrame ==
    /\ EndsSent = IF wpc = "done" THEN 1 ELSE 0
    /\ EndsSent = 1 => tick = TickBudget /\ steps = TickBudget /\ FramesSent = TickBudget
    /\ Queued("end") = 1 => chMessages[Len(chMessages)] = "end"
    /\ message = "end" => mpc \in {"join", "exit"} /\ taken = TickBudget /\ chBalls = <<>>

\* "end" has been sent while main is still behind, taking an earlier frame.
C2_Witness ==
    /\ wpc = "done"
    /\ mpc = "try_recv"
    /\ Len(chMessages) >= 3
    /\ chMessages[Len(chMessages)] = "end"

\* Notifications on the consumer's side whose snapshot main has not taken:
\* the "balls" messages queued and the one main has just received.
Announced == Queued("balls") + IF mpc = "try_recv" THEN 1 ELSE 0

\* C3 as claimed: at no time is one part of a tick's frame on the consumer's
\* side without the other, so queued snapshots and notifications pair up.
C3_FrameIsOneUnit == Len(chBalls) = Announced

(* C3, amended: the snapshot and its notification are two sends on two
   channels, the snapshot first.  A notification is never on the consumer's
   side without its snapshot; a snapshot is there without its notification
   only while the worker is between the two sends, and then only one. *)
C3_SnapshotBeforeNotification ==
    Len(chBalls) = Announced + IF wpc = "send_message" THEN 1 ELSE 0

\* The worker is between the two sends of tick 3 and main has taken all it
\* was told of: the snapshot of tick 3 is queued alone.
C3_Witness ==
    /\ wpc = "send_message"
    /\ tick = 2
    /\ taken = 2
    /\ Announced = 0
    /\ Len(chBalls) = 1

(* C4: from the start of the loop the worker makes exactly TickBudget (300)
   engine steps and sends one frame per step, then leaves the loop and is
   done; scheduled fairly it always gets there, and steps no more after. *)
C4_StepsBudgetThenDone ==
    /\ [](steps <= TickBudget)
    /\ [](rxAlive => FramesSent = IF wpc = "send_balls" THEN steps - 1 ELSE steps)
    /\ [](wpc \in {"end", "done"} => steps = TickBudget /\ tick = TickBudget)
    /\ <>(wpc = "done")
    /\ [][wpc = "done" => wpc' = "done" /\ steps' = steps /\ world' = world]_vars

\* The worker is done after its 300 steps, all 300 frames sent.
C4_Witness == wpc = "done" /\ steps = TickBudget /\ rxAlive /\ FramesSent = TickBudget

(* C5: in every tick the step comes first, then the snapshot, then the
   sends, and the next step waits for them: the frame sent in tick k holds
   the bodies as k steps have left them. *)
C5_SnapshotAfterStep ==
    /\ wpc = "step" => steps = tick /\ FramesSent = tick
    /\ wpc = "send_balls" => steps = tick + 1 /\ FramesSent = tick
    /\ wpc = "send_message" =>
          /\ steps = tick + 1
          /\ chBalls # <<>>
          /\ chBalls[Len(chBalls)] = FrameOfTick(tick + 1)

\* The frame of tick 2 has just been sent: the moving ball is two steps on.
C5_Witness ==
    /\ wpc = "send_message"
    /\ tick = 1
    /\ chBalls[Len(chBalls)][NumBalls].position =
          <<BallPosition(NumBalls - 1)[1] + 2 * InitialVelocity,
            BallPosition(NumBalls - 1)[2] + 2 * InitialVelocity>>

\* The ids of a frame's entries, in the frame's order.
Ids(frame) == [j \in DOMAIN frame |-> frame[j].id]

Ascending(seq) == \A m, n \in DOMAIN seq : m < n => seq[m] < seq[n]

\* The uids of the colliders that create_ground attached to the ground.
GroundIds == {u \in DOMAIN world.colliders : world.colliders[u] = Ground}

\* The uids of the balls that create_balls made.
BallIds == {balls_handler[j] : j \in DOMAIN balls_handler}

\* The frame sent last.
LastFrame == chBalls[Len(chBalls)]

\* C6 as claimed: every frame is sorted by ascending id and has one entry per
\* ball created, whatever uids the engine handed out.
C6_FrameSortedById ==
    chBalls # <<>> =>
        /\ Ascending(Ids(LastFrame))
        /\ Len(LastFrame) = NumBalls
        /\ {LastFrame[j].id : j \in DOMAIN LastFrame} = BallIds

(* C6, amended: every frame lists the balls in the order create_balls made
   them, which is the order of the handle list and not of the ids: one entry
   for each ball created before the loop, none of them a ground collider or
   an unknown id, and ascending in id exactly when the engine handed the
   balls ascending uids. *)
C6_FrameInCreationOrder ==
    chBalls # <<>> =>
        /\ Ids(LastFrame) = balls_handler
        /\ Len(LastFrame) = NumBalls
        /\ Cardinality(BallIds) = NumBalls
        /\ BallIds = balls
        /\ BallIds \cap GroundIds = {}
        /\ BallIds \subseteq DOMAIN world.colliders
        /\ Ascending(Ids(LastFrame)) <=> Ascending(balls_handler)

\* The engine gave the second ball a smaller uid than the first, and the
\* frame of tick 2 lists the balls in creation order, descending in id.
C6_Witness ==
    /\ Len(chBalls) = 2
    /\ LastFrame[1].id > LastFrame[2].id
    /\ Ids(LastFrame) = balls_handler

\* The bodies of the world after k steps of the loop.
BodiesAfter(k) ==
    [j \in 1..Len(balls_handler) |->
        [position |-> <<BallPosition(j - 1)[1] + k * VelocityOf(j)[1],
                        BallPosition(j - 1)[2] + k * VelocityOf(j)[2]>>,
         velocity |-> VelocityOf(j)]]

InLoop == wpc \in {"step", "send_balls", "send_message", "end", "done"}

(* C7: with the receivers dropped at any time of the run, no send stops the
   worker: it never panics, it goes on through every tick to its end, and its
   world after k steps is what it is with the consumer listening. *)
C7_ConsumerGoneNotFatal ==
    /\ [](wpc # "panicked")
    /\ [](InLoop => world.bodies = BodiesAfter(steps))
    /\ [](wpc = "done" => steps = TickBudget)
    /\ (mpc = "dropped") ~> (wpc = "done" /\ steps = TickBudget)

\* The receivers were dropped, and the worker has made all its steps.
C7_Witness ==
    /\ mpc = "dropped"
    /\ ~rxAlive
    /\ wpc = "done"
    /\ steps = TickBudget
    /\ world.bodies = BodiesAfter(TickBudget)

\* A terminal message other than "end" is queued or has been received.
FailureSignalled ==
    \/ \E j \in DOMAIN chMessages : chMessages[j] \notin {"balls", "end"}
    \/ message \notin {"", "balls", "end"}

\* C8 as claimed: once a fault has stopped the worker, a terminal message
\* that differs from the one of normal completion has been sent to main.
C8_FaultSignalled == wpc = "panicked" => FailureSignalled

(* C9: a contact of either kind is BallVsBall exactly when both ids are
   balls, BallVsGround exactly when one is a ground collider and the other a
   ball, and Other in every other case, unknown ids included; the kind has
   no part in it. *)
C9_CategoryByRoles ==
    event # <<>> =>
        LET bothBalls == event.a \in BallIds /\ event.b \in BallIds
            ballGround == \/ event.a \in GroundIds /\ event.b \in BallIds
                          \/ event.a \in BallIds /\ event.b \in GroundIds
        IN /\ event.category = "BallVsBall" <=> bothBalls
           /\ event.category = "BallVsGround" <=> ballGround
           /\ event.category = "Other" <=> ~bothBalls /\ ~ballGround
           /\ \A kind \in {"Started", "Stopped"} :
                 Classify(kind, event.a, event.b).category = event.category

\* A Stopped contact between a ground collider and a ball has been classified.
C9_Witness ==
    /\ event # <<>>
    /\ event.kind = "Stopped"
    /\ event.a \in GroundIds
    /\ event.b \in BallIds
    /\ event.category = "BallVsGround"

\* The insert loop is about to insert a uid that balls already holds.
InsertsDuplicate ==
    /\ wpc = "insert"
    /\ cursor <= Len(balls_handler)
    /\ balls_handler[cursor] \in balls

C11_ConsumerLeavesWorkerState ==
    /\ [][Main => UNCHANGED <<world, balls, balls_handler, tick, steps, wpc, uids, cursor>>]_vars
    /\ [][Worker =>
            /\ sync_balls' = sync_balls
            /\ Len(chBalls') >= Len(chBalls)
            /\ SubSeq(chBalls', 1, Len(chBalls)) = chBalls]_vars

\* Main took the frame of tick 1, and the worker has stepped twice since
\* with the frame of tick 2 still queued: both are as they were sent.
C11_Witness ==
    /\ taken = 1
    /\ steps = 3
    /\ wpc = "send_message"
    /\ sync_balls = FrameOfTick(1)
    /\ Len(chBalls) = 2
    /\ chBalls[1] = FrameOfTick(2)

(* C12: the worker never waits for main.  Its sends go to unbounded
   channels, so while it has not returned one of its statements can always
   run, and with main never receiving it still makes every step and sends
   every frame, every notification and "end". *)
C12_WorkerNeverWaits ==
    /\ [](wpc # "done" => ENABLED Worker)
    /\ <>(/\ wpc = "done"
          /\ steps = TickBudget
          /\ Len(chBalls) = TickBudget
          /\ Len(chMessages) = TickBudget + 1
          /\ chMessages[TickBudget + 1] = "end")

\* The worker has returned with everything it sent still queued.
C12_Witness ==
    /\ wpc = "done"
    /\ mpc = "recv"
    /\ taken = 0
    /\ Len(chBalls) = TickBudget
    /\ Len(chMessages) = TickBudget + 1

\* C13 as claimed: with a request to stop raised, the worker at the head of
\* its loop steps no more and goes to Stopped.
C13_CancelStopsAtTickBoundary ==
    [][cancel /\ wpc = "step" => steps' = steps /\ wpc' = "stopped"]_vars

(* C13, amended: physics has no cancellation.  No signal from outside
   reaches the worker: whatever is raised while it runs, it goes on at every
   head of the loop, makes all its TickBudget (300) steps and ends as it
   does otherwise, with "end" sent; it is never Stopped.  It is true that
   no step is cut short. *)
C13_CancelNotObserved ==
    /\ [](wpc # "stopped")
    /\ [][cancel /\ wpc = "step" => steps' = steps + 1 /\ wpc' = "send_balls"]_vars
    /\ [](cancel /\ wpc = "done" => steps = TickBudget /\ chMessages[Len(chMessages)] = "end")
    /\ cancel ~> (wpc = "done" /\ steps = TickBudget)

\* A request to stop is up and the worker is in the step after the one it
\* was at the head of the loop for.
C13_Witness ==
    /\ cancel
    /\ wpc = "send_balls"
    /\ tick = 1
    /\ steps = 2

(* C14: at all times at least as many snapshots are queued as "balls"
   notifications, the snapshot being sent first; so when main has received
   a "balls" its try_recv finds a snapshot and the unwrap does not panic. *)
C14_SnapshotWaitsForNotification ==
    /\ Len(chBalls) >= Queued("balls")
    /\ mpc = "try_recv" => chBalls # <<>>
    /\ mpc # "panicked"

\* Main has received the third "balls" while the worker is well ahead.
C14_Witness ==
    /\ mpc = "try_recv"
    /\ taken = 2
    /\ Queued("balls") = 2
    /\ Len(chBalls) = 4

(* C15: main leaves its loop only on "end".  When the worker has gone
   without sending it, recv returns Err, the loop goes round again, and
   main stays in the loop: it never comes to the join. *)
C15_LoopEndsOnlyOnEnd ==
    /\ mpc \in {"join", "exit"} => message = "end" /\ wpc = "done"
    /\ wpc = "panicked" => mpc \in {"recv", "try_recv"}
    /\ (wpc = "panicked" /\ mpc = "recv" /\ chMessages = <<>>) =>
          /\ ENABLED RecvErr
          /\ ~ENABLED Recv
          /\ ~ENABLED Join

\* The worker panicked in tick 3; main has taken the two frames sent and
\* now gets Err from every recv.
C15_Witness ==
    /\ wpc = "panicked"
    /\ mpc = "recv"
    /\ chMessages = <<>>
    /\ taken = 2
    /\ message = "balls"

(* C16: when main leaves its loop on "end" after a run the worker has
   completed, it has taken one snapshot per tick, TickBudget (300) in all,
   and nothing is left in either channel. *)
C16_NothingLeftAtEnd ==
    mpc = "join" =>
        /\ wpc = "done"
        /\ taken = TickBudget
        /\ sync_balls = FrameOfTick(TickBudget)
        /\ chBalls = <<>>
        /\ chMessages = <<>>

\* Main has just left its loop.
C16_Witness == mpc = "join" /\ message = "end" /\ rxAlive /\ taken = TickBudget

(* C17: every message the worker sends is "balls" or "end", so the match
   of main never takes its third arm and "Unknown message" never panics. *)
C17_NoUnknownMessage ==
    /\ \A j \in DOMAIN chMessages : chMessages[j] \in {"balls", "end"}
    /\ message \in {"", "balls", "end"}
    /\ mpc # "panicked"

\* Main has matched the last "balls" and "end" alone is queued behind it.
C17_Witness ==
    /\ mpc = "try_recv"
    /\ message = "balls"
    /\ chMessages = <<"end">>

====
